---------------------------- MODULE Spec2Model ----------------------------
(***************************************************************************)
(* A model of cdblib.py: the Writer that builds a constant database image  *)
(* (header, records, 256 open-addressed tables) and the Reader that looks  *)
(* keys up in it.  The file is a sequence of bytes; every integer in it is *)
(* packed and unpacked as a 32-bit little-endian number, as Struct('<LL')  *)
(* does.  Offsets are 0-based as in the source; sequences are 1-based.     *)
(***************************************************************************)
EXTENDS Integers, Sequences, FiniteSets, TLC

VARIABLES
    fp,          \* Writer.fp: [buf |-> bytes of the file, pos |-> fp.tell()]
    unordered,   \* Writer._unordered: bucket -> sequence of <<hash, pos>>
    hash,        \* the hash function given to both Writer and Reader
    puts,        \* history: the <<key, value>> pairs written by put, in call order
    nfin,        \* history: the number of finalize calls carried out
    late,        \* history: the number of puts carried out after a finalize
    reader,      \* the Reader object: [open, data, table_start, length]
    last,        \* the last call and its outcome: [op, key, arg, enc, out, exc]
    th           \* the threads sharing the Reader: thread -> [pc, op, key, arg, local, out]

vars == <<fp, unordered, hash, puts, nfin, late, reader, last, th>>

-----------------------------------------------------------------------------
(* Bounds and input sets *)

\* The number of Writer calls (put, putstring, putstrings, finalize) in a run.
MaxCalls == 3

HEADER_SIZE == 2048
NBUCKETS == 256

Keys == {<<>>, <<97>>, <<98>>}
Values == {<<>>, <<120>>}
\* Text values, as code points: u'A', u'\xe9', u'\u2603'.
Texts == {<<65>>, <<233>>, <<9731>>}
TextLists == {<<<<65>>, <<9731>>>>} \cup {<<t>> : t \in Texts}
\* The threads that share one Reader.
Threads == {1, 2}

Min(S) == CHOOSE x \in S : \A y \in S : x <= y

-----------------------------------------------------------------------------
(* Unsigned 32-bit integers.  A value that is packed into or unpacked from *)
(* the file is kept as its low byte and its upper 24 bits, so that the     *)
(* whole range 0 .. 2^32 - 1 of a hash is covered: h & 0xff is w.lo and    *)
(* h >> 8 is w.hi.  Offsets and lengths are small and used as integers.    *)

W32(hi, lo) == [hi |-> hi, lo |-> lo]
ToW(n) == W32(n \div 256, n % 256)
ToInt(w) == (w.hi * 256) + w.lo
IsZero(w) == w.hi = 0 /\ w.lo = 0

RECURSIVE Xor8(_, _, _)
\* a ^ b for a, b < 2^n
Xor8(a, b, n) ==
    IF n = 0 THEN 0
    ELSE (((a % 2) + (b % 2)) % 2) + 2 * Xor8(a \div 2, b \div 2, n - 1)

\* One round of djb_hash: (((h << 5) + h) ^ c) & 0xffffffff
djb_step(h, c) ==
    LET t == h.lo * 33
    IN  W32(((h.hi * 33) + (t \div 256)) % 16777216, Xor8(t % 256, c, 8))

RECURSIVE djb_loop(_, _, _)
djb_loop(h, s, i) ==
    IF i > Len(s) THEN h ELSE djb_loop(djb_step(h, s[i]), s, i + 1)

djb_hash(s) == djb_loop(ToW(5381), s, 1)

\* The hash functions a run may be configured with (the same one for the
\* Writer and the Reader): the default, the test suite's constant hash, a
\* constant 0, one with a zero hash, a home-slot collision in bucket 0 and
\* the largest 32-bit value, and one that puts every key in bucket 1.
DjbHash == [k \in Keys |-> djb_hash(k)]
NullHash == [k \in Keys |-> ToW(1)]
ZeroHash == [k \in Keys |-> ToW(0)]
MixedHash == (<<>> :> ToW(0)) @@ (<<97>> :> ToW(1024)) @@ (<<98>> :> W32(16777215, 255))
BucketHash == (<<>> :> ToW(769)) @@ (<<97>> :> ToW(1793)) @@ (<<98>> :> ToW(257))
HashFns == {DjbHash, NullHash, ZeroHash, MixedHash, BucketHash}

-----------------------------------------------------------------------------
(* Bytes and the file object.                                              *)
(* An operator that uses an argument several times binds it first, as z in *)
(* CHOOSE r \in {e(z) : z \in {v}} : TRUE, which is e(v) with v evaluated  *)
(* once.                                                                   *)

\* The four bytes of the little-endian encoding of w.
LE4(w) ==
    CHOOSE r \in {<<z.lo, z.hi % 256, (z.hi \div 256) % 256, (z.hi \div 65536) % 256>> :
                  z \in {w}} : TRUE

\* Struct('<LL').pack
write_2_le4(a, b) == LE4(a) \o LE4(b)

\* data[a:b] of Python, for 0 <= a.
Slice(data, a, b) ==
    LET e == IF b > Len(data) THEN Len(data) ELSE b
    IN  IF a >= e THEN <<>> ELSE SubSeq(data, a + 1, e)

\* The little-endian number in the four bytes of data from offset i on, as an
\* unsigned 32-bit value (a hash) and as an integer (an offset, a length).
U32(data, i) ==
    W32(data[i + 2] + (256 * data[i + 3]) + (65536 * data[i + 4]), data[i + 1])
IntAt(data, i) ==
    data[i + 1] + (256 * data[i + 2]) + (65536 * data[i + 3]) + (16777216 * data[i + 4])

\* Struct('<LL').unpack(data[i:i+8]) of two offsets or lengths.
read_2_le4(data, i) == <<IntAt(data, i), IntAt(data, i + 4)>>

\* Struct('<LL').unpack(data[i:i+8]) of a table slot: <<hash, record offset>>.
read_slot(data, i) == <<U32(data, i), IntAt(data, i + 4)>>

\* fp.write(s) of a StringIO: overwrites from fp.pos on and extends the buffer.
FileWrite(f, s) ==
    IF Len(s) = 0 THEN f
    ELSE IF f.pos = Len(f.buf)
    THEN [buf |-> f.buf \o s, pos |-> f.pos + Len(s)]
    ELSE LET e == f.pos + Len(s)
         IN  [buf |-> SubSeq(f.buf, 1, f.pos) \o s
                        \o (IF e < Len(f.buf) THEN SubSeq(f.buf, e + 1, Len(f.buf)) ELSE <<>>),
              pos |-> e]

RECURSIVE Repeat(_, _)
\* s * n of Python: n copies of the sequence s, one after another.
Repeat(s, n) ==
    IF n = 0 THEN <<>>
    ELSE IF n = 1 THEN s
    ELSE CHOOSE r \in {IF n % 2 = 0 THEN h \o h ELSE (h \o h) \o s :
                       h \in {Repeat(s, n \div 2)}} : TRUE

RECURSIVE PackRange(_, _, _)
\* The packs of the n pairs of tbl from the i-th on, one after another.  The
\* range is split in halves; a run of equal pairs is packed once and repeated.
PackRange(tbl, i, n) ==
    IF n = 0 THEN <<>>
    ELSE IF \A j \in i..(i + n - 1) : tbl[j] = tbl[i]
    THEN Repeat(write_2_le4(tbl[i][1], tbl[i][2]), n)
    ELSE CHOOSE r \in {PackRange(tbl, i, m) \o PackRange(tbl, j, k) :
                       m \in {n \div 2}, j \in {i + (n \div 2)}, k \in {n - (n \div 2)}} : TRUE

\* The bytes _write_tbl writes for a sequence of pairs.
PackTbl(tbl) == CHOOSE r \in {PackRange(t, 1, Len(t)) : t \in {tbl}} : TRUE

write_tbl(f, tbl) == CHOOSE r \in {FileWrite(g, s) : g \in {f}, s \in {PackTbl(tbl)}} : TRUE

-----------------------------------------------------------------------------
(* Python values: a str is a sequence of bytes, a unicode a sequence of    *)
(* code points.                                                            *)
PyStr(b) == [type |-> "str", v |-> b]
PyUnicode(t) == [type |-> "unicode", v |-> t]
\* None stands for Python's None, UNSPECIFIED for the module's sentinel.
None == [type |-> "None", v |-> <<>>]
UNSPECIFIED == [type |-> "UNSPECIFIED", v |-> <<>>]

-----------------------------------------------------------------------------
(* Writer *)

\* The pending lists of Writer.__init__: one empty list per bucket.
EmptyUnordered == [b \in 0..(NBUCKETS - 1) |-> <<>>]

\* Writer.__init__: the file holds the 2048-byte placeholder header.
NewFile == write_tbl([buf |-> <<>>, pos |-> 0], [b \in 1..NBUCKETS |-> <<ToW(0), ToW(0)>>])

\* Writer.put on the file: the length prefix, the key, the value.
PutFile(f, key, value) ==
    CHOOSE r \in {FileWrite(f2, value) :
                  f2 \in {FileWrite(f1, key) :
                          f1 \in {FileWrite(f, write_2_le4(ToW(Len(key)), ToW(Len(value))))}}} : TRUE

\* Writer.put on the pending lists.
PutUnordered(u, h, pos) == [u EXCEPT ![h.lo] = Append(@, <<h, ToW(pos)>>)]

\* The slot indexes chain(xrange(where, length), xrange(0, where)) visits.
ProbeOrder(where, length) == [i \in 1..length |-> (where + i - 1) % length]

RECURSIVE Place(_, _, _, _)
\* The inner loop of finalize: put pair in the first slot of order, from its
\* i-th element on, whose hash field is 0; leave ordered alone when there is none.
Place(ordered, pair, order, i) ==
    IF i > Len(order) THEN ordered
    ELSE IF IsZero(ordered[order[i] + 1][1])
    THEN [ordered EXCEPT ![order[i] + 1] = pair]
    ELSE Place(ordered, pair, order, i + 1)

RECURSIVE PlaceAll(_, _, _)
PlaceAll(ordered, tbl, n) ==
    IF n > Len(tbl) THEN ordered
    ELSE CHOOSE r \in {PlaceAll(o, tbl, n + 1) :
                       o \in {Place(ordered, tbl[n],
                                    ProbeOrder(tbl[n][1].hi % Len(ordered), Len(ordered)), 1)}} : TRUE

\* A table with one slot per pending entry, not two.
OrderedExact(tbl) ==
    CHOOSE r \in {PlaceAll(o, tbl, 1) :
                  o \in {[i \in 1..Len(tbl) |-> <<ToW(0), ToW(0)>>]}} : TRUE

\* The table finalize builds for one bucket's pending list.
Ordered(tbl) ==
    CHOOSE r \in {PlaceAll(o, tbl, 1) :
                  o \in {[i \in 1..(Len(tbl) * 2) |-> <<ToW(0), ToW(0)>>]}} : TRUE

\* One round of the outer loop of finalize, for bucket b: st is <<file, index>>.
FinalizeBucket(u, b, st) ==
    CHOOSE r \in {<<write_tbl(st[1], ordered),
                    Append(st[2], <<ToW(st[1].pos), ToW(Len(ordered))>>)>> :
                  ordered \in {Ordered(u[b])}} : TRUE

RECURSIVE FinalizeLoop(_, _, _, _)
\* The outer loop of finalize over the n buckets from b on, in bucket order.
\* The range is split in halves; over a range of empty buckets the loop writes
\* nothing and appends (fp.tell(), 0) to the index for each.
FinalizeLoop(u, b, n, st) ==
    IF n = 0 THEN st
    ELSE IF \A c \in b..(b + n - 1) : Len(u[c]) = 0
    THEN <<st[1], st[2] \o Repeat(<< <<ToW(st[1].pos), ToW(0)>> >>, n)>>
    ELSE IF n = 1 THEN FinalizeBucket(u, b, st)
    ELSE CHOOSE r \in {FinalizeLoop(u, c, k, mid) :
                       c \in {b + (n \div 2)}, k \in {n - (n \div 2)},
                       mid \in {FinalizeLoop(u, b, n \div 2, st)}} : TRUE

\* Writer.finalize on the file: the tables, then seek(0) and the index.
FinalizeFile(f, u) ==
    CHOOSE g \in {write_tbl([buf |-> r[1].buf, pos |-> 0], r[2]) :
                  r \in {FinalizeLoop(u, 0, NBUCKETS, <<f, <<>>>>)}} : TRUE

-----------------------------------------------------------------------------
(* Text encodings: unicode.encode and str.decode for 'utf-8' and 'latin-1'. *)
(* A result is [ok |-> TRUE, v |-> the converted sequence] or, when Python  *)
(* raises UnicodeEncodeError / UnicodeDecodeError, [ok |-> FALSE, v |-> <<>>].*)

Encodings == {"utf-8", "latin-1"}

Utf8Char(c) ==
    IF c < 128 THEN <<c>>
    ELSE IF c < 2048 THEN <<192 + (c \div 64), 128 + (c % 64)>>
    ELSE <<224 + (c \div 4096), 128 + ((c \div 64) % 64), 128 + (c % 64)>>

RECURSIVE EncodeFrom(_, _, _)
EncodeFrom(t, enc, i) ==
    IF i > Len(t) THEN [ok |-> TRUE, v |-> <<>>]
    ELSE IF enc = "latin-1" /\ t[i] > 255 THEN [ok |-> FALSE, v |-> <<>>]
    ELSE LET rest == EncodeFrom(t, enc, i + 1)
             c == IF enc = "latin-1" THEN <<t[i]>> ELSE Utf8Char(t[i])
         IN  IF rest.ok THEN [ok |-> TRUE, v |-> c \o rest.v] ELSE rest

Encode(t, enc) == EncodeFrom(t, enc, 1)

IsCont(b, i) == i <= Len(b) /\ b[i] >= 128 /\ b[i] < 192

RECURSIVE DecodeFrom(_, _, _)
DecodeFrom(b, enc, i) ==
    IF i > Len(b) THEN [ok |-> TRUE, v |-> <<>>]
    ELSE IF enc = "latin-1" \/ b[i] < 128
    THEN LET rest == DecodeFrom(b, enc, i + 1)
         IN  IF rest.ok THEN [ok |-> TRUE, v |-> <<b[i]>> \o rest.v] ELSE rest
    ELSE IF b[i] >= 194 /\ b[i] < 224 /\ IsCont(b, i + 1)
    THEN LET rest == DecodeFrom(b, enc, i + 2)
             c == ((b[i] - 192) * 64) + (b[i + 1] - 128)
         IN  IF rest.ok THEN [ok |-> TRUE, v |-> <<c>> \o rest.v] ELSE rest
    ELSE IF b[i] >= 224 /\ b[i] < 240 /\ IsCont(b, i + 1) /\ IsCont(b, i + 2)
            /\ (b[i] > 224 \/ b[i + 1] >= 160)
    THEN LET rest == DecodeFrom(b, enc, i + 3)
             c == ((b[i] - 224) * 4096) + ((b[i + 1] - 128) * 64) + (b[i + 2] - 128)
         IN  IF rest.ok THEN [ok |-> TRUE, v |-> <<c>> \o rest.v] ELSE rest
    ELSE [ok |-> FALSE, v |-> <<>>]

Decode(b, enc) == DecodeFrom(b, enc, 1)

-----------------------------------------------------------------------------
(* Reader *)

\* self.table_start and self.length before they are computed (Python's None).
Unset == -1

\* Reader.__init__ after fp.seek(0): the whole file is read into memory.
NewReader(f) == [open |-> TRUE, data |-> f.buf, table_start |-> Unset, length |-> Unset]
NoReader == [open |-> FALSE, data |-> <<>>, table_start |-> Unset, length |-> Unset]

\* range(0, 2048, 8)
HeaderOffsets == {8 * b : b \in 0..(NBUCKETS - 1)}

\* Reader._get_value: <<value>> on a key match, <<>> for the None it returns otherwise.
get_value(data, pos, key) ==
    CHOOSE r \in {IF Slice(data, p + 8, p + 8 + kd[1]) = key
                  THEN <<Slice(data, p + 8 + kd[1], p + 8 + kd[1] + kd[2])>>
                  ELSE <<>> :
                  p \in {pos}, kd \in {read_2_le4(data, pos)}} : TRUE

\* The table_start iteritems computes when none is cached.
ComputeTableStart(data) == Min({IntAt(data, i) : i \in HeaderOffsets})

\* A round of the loop that leaves pos at the data, not after it.
NextRecordNoSkip(data, pos) ==
    CHOOSE r \in {<<Slice(data, p + 8, p + 8 + kd[1]),
                    Slice(data, p + 8 + kd[1], p + 8 + kd[1] + kd[2]),
                    p + 8 + kd[1]>> :
                  p \in {pos}, kd \in {read_2_le4(data, pos)}} : TRUE

\* One round of the loop of iteritems: <<key, data, pos after the record>>.
NextRecord(data, pos) ==
    CHOOSE r \in {<<Slice(data, p + 8, p + 8 + kd[1]),
                    Slice(data, p + 8 + kd[1], p + 8 + kd[1] + kd[2]),
                    p + 8 + kd[1] + kd[2]>> :
                  p \in {pos}, kd \in {read_2_le4(data, pos)}} : TRUE

RECURSIVE Scan(_, _, _)
\* The items iteritems yields from pos on.
Scan(data, pos, table_start) ==
    IF pos < table_start
    THEN CHOOSE r \in {<<<<rec[1], rec[2]>>>> \o Scan(data, rec[3], table_start) :
                       rec \in {NextRecord(data, pos)}} : TRUE
    ELSE <<>>

\* The table_start iteritems uses: the cached one when it is truthy.
TableStartOf(r) ==
    IF r.table_start /= Unset /\ r.table_start /= 0 THEN r.table_start
    ELSE ComputeTableStart(r.data)

\* list(reader.iteritems())
iteritems(r) ==
    CHOOSE items \in {Scan(r.data, HEADER_SIZE, ts) : ts \in {TableStartOf(r)}} : TRUE

RECURSIVE SumOver(_, _)
\* The sum of the table_length fields of the header entries in the set S.
SumOver(data, S) ==
    IF S = {} THEN 0
    ELSE CHOOSE r \in {IntAt(data, (8 * b) + 4) + SumOver(data, S \ {b}) :
                       b \in {Min(S)}} : TRUE

\* sum(read_2_le4(data[i:i+8])[1] for i in range(0, 2048, 8)): the terms that
\* are 0 are left out of the sum.
SumLengths(data) ==
    SumOver(data, {b \in 0..(NBUCKETS - 1) : IntAt(data, (8 * b) + 4) /= 0})

\* The value __len__ returns.
LengthOf(r) == IF r.length = Unset THEN SumLengths(r.data) ELSE r.length

\* The slot positions chain(xrange(slot_off, end, 8), xrange(start, slot_off, 8)) visits.
SlotOrder(start, nslots, home) ==
    [i \in 1..nslots |-> start + (8 * ((home + i - 1) % nslots))]

RECURSIVE Probe(_, _, _, _, _)
\* The loop of gets over the slot positions order[i..]: the values yielded.
Probe(data, h, key, order, i) ==
    IF i > Len(order) THEN <<>>
    ELSE CHOOSE r \in {IF IsZero(rec[1]) THEN <<>>
                       ELSE IF rec[1] = h
                       THEN get_value(data, rec[2], key) \o Probe(data, h, key, order, i + 1)
                       ELSE Probe(data, h, key, order, i + 1) :
                       rec \in {read_slot(data, order[i])}} : TRUE

\* list(reader.gets(key)), h being self.hash(key).
gets(data, h, key) ==
    CHOOSE r \in {IF sn[2] = 0 THEN <<>>
                  ELSE Probe(data, h, key, SlotOrder(sn[1], sn[2], h.hi % sn[2]), 1) :
                  sn \in {read_2_le4(data, (h.lo * 8) % HEADER_SIZE)}} : TRUE

\* Reader.get: [exc, out], out a Python value.
get(data, h, key, default) ==
    LET g == gets(data, h, key)
    IN  IF Len(g) > 0 THEN [exc |-> "none", out |-> PyStr(g[1])]
        ELSE IF default = UNSPECIFIED THEN [exc |-> "KeyError", out |-> None]
        ELSE [exc |-> "none", out |-> default]

\* Reader.getstring
getstring(data, h, key, default, encoding) ==
    LET value == get(data, h, key, None).out
    IN  IF value = None
        THEN IF default = UNSPECIFIED THEN [exc |-> "KeyError", out |-> None]
             ELSE [exc |-> "none", out |-> default]
        ELSE LET d == Decode(value.v, encoding)
             IN  IF d.ok THEN [exc |-> "none", out |-> PyUnicode(d.v)]
                 ELSE [exc |-> "UnicodeDecodeError", out |-> None]

-----------------------------------------------------------------------------
(* The state after Writer(fp, hash=...) on an empty file *)

Call(op, key, arg, enc, out, exc) ==
    [op |-> op, key |-> key, arg |-> arg, enc |-> enc, out |-> out, exc |-> exc]

\* One put as the history keeps it: the bytes written, and the text and
\* encoding asked for when it came through putstring or putstrings.
PutRec(key, value, via, text, enc) ==
    [key |-> key, value |-> value, via |-> via, text |-> text, enc |-> enc]

\* A thread that is in no call of the Reader.
IdleThread ==
    [pc |-> "idle", op |-> "none", key |-> <<>>, arg |-> None, local |-> Unset, out |-> None]

Init ==
    /\ fp = NewFile
    /\ unordered = EmptyUnordered
    /\ hash \in HashFns
    /\ puts = <<>>
    /\ nfin = 0
    /\ late = 0
    /\ reader = NoReader
    /\ last = Call("init", None, None, "", None, "none")
    /\ th = [t \in Threads |-> IdleThread]

\* The caller makes at most MaxCalls writes and finalizes, all of them before
\* the image is read.
MayWrite(n) == ~reader.open /\ Len(puts) + nfin + n <= MaxCalls

-----------------------------------------------------------------------------
(* Writer operations *)

\* The writer's state an operation works on, and the exception it ends with.
WriterNow == [fp |-> fp, unordered |-> unordered, puts |-> puts, exc |-> "none"]

\* Writer.put with str arguments: the record at fp.tell(), the pending entry.
PutStep(st, h, key, value, via, text, enc) ==
    [fp |-> PutFile(st.fp, key, value),
     unordered |-> PutUnordered(st.unordered, h, st.fp.pos),
     puts |-> Append(st.puts, PutRec(key, value, via, text, enc)),
     exc |-> st.exc]

\* The writer after an operation that left it as st.
SetWriter(st) ==
    /\ fp' = st.fp
    /\ unordered' = st.unordered
    /\ puts' = st.puts
    /\ late' = IF nfin > 0 THEN late + (Len(st.puts) - Len(puts)) ELSE late

\* Writer.put refusing to write once finalize has run.
GuardedPut(key, value) ==
    /\ MayWrite(1)
    /\ \/ /\ nfin = 0 /\ key.type = "str" /\ value.type = "str"
          /\ \E st \in {PutStep(WriterNow, hash[key.v], key.v, value.v, "put", <<>>, "")} :
                 SetWriter(st)
          /\ last' = Call("put", key, value, "", None, "none")
          /\ UNCHANGED <<hash, th, nfin, reader>>
       \/ /\ nfin = 0 /\ ~(key.type = "str" /\ value.type = "str")
          /\ last' = Call("put", key, value, "", None, "AssertionError")
          /\ UNCHANGED <<fp, unordered, hash, th, puts, nfin, late, reader>>
       \/ /\ nfin > 0
          /\ last' = Call("put", key, value, "", None, "ContractViolation")
          /\ UNCHANGED <<fp, unordered, hash, th, puts, nfin, late, reader>>

\* Writer.put(key, value)
Put(key, value) ==
    /\ MayWrite(1)
    /\ \/ /\ key.type = "str" /\ value.type = "str"
          /\ \E st \in {PutStep(WriterNow, hash[key.v], key.v, value.v, "put", <<>>, "")} :
                 SetWriter(st)
          /\ last' = Call("put", key, value, "", None, "none")
          /\ UNCHANGED <<hash, th, nfin, reader>>
       \/ /\ ~(key.type = "str" /\ value.type = "str")
          /\ last' = Call("put", key, value, "", None, "AssertionError")
          /\ UNCHANGED <<fp, unordered, hash, th, puts, nfin, late, reader>>

\* Writer.putstring(key, value, encoding): the value is encoded as 'utf-8'
\* whatever the encoding asked for.
PutString(key, value, encoding) ==
    /\ MayWrite(1)
    /\ \E e \in {Encode(value, "utf-8")} :
           IF e.ok
           THEN /\ \E st \in {PutStep(WriterNow, hash[key], key, e.v, "putstring", value, encoding)} :
                       SetWriter(st)
                /\ last' = Call("putstring", PyStr(key), PyUnicode(value), encoding, None, "none")
           ELSE /\ last' = Call("putstring", PyStr(key), PyUnicode(value), encoding, None,
                                "UnicodeEncodeError")
                /\ UNCHANGED <<fp, unordered, puts, late>>
    /\ UNCHANGED <<hash, th, nfin, reader>>

RECURSIVE PutStringsLoop(_, _, _, _, _, _)
\* The loop of puts over the generator of putstrings: each value is encoded
\* when its turn comes, and put; an encoding error ends the loop.
PutStringsLoop(st, h, key, values, encoding, i) ==
    IF i > Len(values) THEN st
    ELSE CHOOSE r \in {IF e.ok
                       THEN PutStringsLoop(PutStep(st, h, key, e.v, "putstrings", values[i], encoding),
                                           h, key, values, encoding, i + 1)
                       ELSE [st EXCEPT !.exc = "UnicodeEncodeError"] :
                       e \in {Encode(values[i], encoding)}} : TRUE

\* Writer.putstrings(key, values, encoding)
PutStrings(key, values, encoding) ==
    /\ MayWrite(Len(values))
    /\ \E st \in {PutStringsLoop(WriterNow, hash[key], key, values, encoding, 1)} :
           /\ SetWriter(st)
           /\ last' = Call("putstrings", PyStr(key), values, encoding, None, st.exc)
    /\ UNCHANGED <<hash, th, nfin, reader>>

\* Writer.finalize()
Finalize ==
    /\ MayWrite(1)
    /\ fp' = FinalizeFile(fp, unordered)
    /\ nfin' = nfin + 1
    /\ last' = Call("finalize", None, None, "", None, "none")
    /\ UNCHANGED <<unordered, hash, th, puts, late, reader>>

-----------------------------------------------------------------------------
(* Reader operations *)

\* fp.seek(0); Reader(fp, hash=...) on an image built by puts and one finalize.
Open ==
    /\ ~reader.open
    /\ nfin = 1 /\ late = 0
    /\ IF Len(fp.buf) < HEADER_SIZE
       THEN /\ last' = Call("open", None, None, "", None, "IOError")
            /\ UNCHANGED reader
       ELSE /\ reader' = NewReader(fp)
            /\ last' = Call("open", None, None, "", None, "none")
    /\ UNCHANGED <<fp, unordered, hash, th, puts, nfin, late>>

\* list(reader.gets(key))
Gets(key) ==
    /\ reader.open
    /\ last' = Call("gets", PyStr(key), None, "", gets(reader.data, hash[key], key), "none")
    /\ UNCHANGED <<fp, unordered, hash, th, puts, nfin, late, reader>>

\* reader.get(key) and reader.get(key, default)
Get(key, default) ==
    /\ reader.open
    /\ LET r == get(reader.data, hash[key], key, default)
       IN  last' = Call("get", PyStr(key), default, "", r.out, r.exc)
    /\ UNCHANGED <<fp, unordered, hash, th, puts, nfin, late, reader>>

\* list(reader.iteritems())
Iteritems ==
    /\ reader.open
    /\ reader' = [reader EXCEPT !.table_start = TableStartOf(reader)]
    /\ last' = Call("iteritems", None, None, "", iteritems(reader), "none")
    /\ UNCHANGED <<fp, unordered, hash, th, puts, nfin, late>>

\* len(reader)
LenOp ==
    /\ reader.open
    /\ reader' = [reader EXCEPT !.length = LengthOf(reader)]
    /\ last' = Call("len", None, None, "", LengthOf(reader), "none")
    /\ UNCHANGED <<fp, unordered, hash, th, puts, nfin, late>>

\* reader.getstring(key, encoding=encoding)
GetString(key, encoding) ==
    /\ reader.open
    /\ \E r \in {getstring(reader.data, hash[key], key, UNSPECIFIED, encoding)} :
           last' = Call("getstring", PyStr(key), UNSPECIFIED, encoding, r.out, r.exc)
    /\ UNCHANGED <<fp, unordered, hash, th, puts, nfin, late, reader>>

-----------------------------------------------------------------------------
(* Reader operations of threads that share the Reader object.  A step is   *)
(* one read or one write of a field of the object, or a computation over   *)
(* the thread's own variables and the bytes of self.data.                  *)

\* Thread t at pc, about to take a step.
At(t, pc) == reader.open /\ th[t].pc = pc

\* The step leaves thread t as rec.
Goto(t, rec) == th' = [th EXCEPT ![t] = rec]

Rest == <<fp, unordered, hash, puts, nfin, late, last>>

\* iteritems, line 70: if self.table_start
IterTest(t) ==
    /\ At(t, "idle")
    /\ Goto(t, [IdleThread EXCEPT !.op = "iteritems",
                !.pc = IF reader.table_start /= Unset /\ reader.table_start /= 0
                       THEN "it_read" ELSE "it_min"])
    /\ UNCHANGED <<reader, Rest>>

\* iteritems, line 71: table_start = self.table_start
IterRead(t) ==
    /\ At(t, "it_read")
    /\ Goto(t, [th[t] EXCEPT !.pc = "it_scan", !.local = reader.table_start])
    /\ UNCHANGED <<reader, Rest>>

\* iteritems, lines 73-74: table_start = min(...)
IterMin(t) ==
    /\ At(t, "it_min")
    /\ Goto(t, [th[t] EXCEPT !.pc = "it_store", !.local = ComputeTableStart(reader.data)])
    /\ UNCHANGED <<reader, Rest>>

\* A cache that is filled with the start of the record region.
IterStoreRecordStart(t) ==
    /\ At(t, "it_store")
    /\ reader' = [reader EXCEPT !.table_start = HEADER_SIZE]
    /\ Goto(t, [th[t] EXCEPT !.pc = "it_scan"])
    /\ UNCHANGED Rest

\* iteritems, line 75: self.table_start = table_start
IterStore(t) ==
    /\ At(t, "it_store")
    /\ reader' = [reader EXCEPT !.table_start = th[t].local]
    /\ Goto(t, [th[t] EXCEPT !.pc = "it_scan"])
    /\ UNCHANGED Rest

\* iteritems, lines 77-88: the scan, with the thread's own pos and table_start.
IterScan(t) ==
    /\ At(t, "it_scan")
    /\ Goto(t, [th[t] EXCEPT !.pc = "idle", !.out = Scan(reader.data, HEADER_SIZE, th[t].local)])
    /\ UNCHANGED <<reader, Rest>>

\* __len__, line 114: if self.length is None
LenTest(t) ==
    /\ At(t, "idle")
    /\ Goto(t, [IdleThread EXCEPT !.op = "len",
                !.pc = IF reader.length = Unset THEN "len_sum" ELSE "len_ret"])
    /\ UNCHANGED <<reader, Rest>>

\* __len__, lines 115-116: length = sum(...)
LenSum(t) ==
    /\ At(t, "len_sum")
    /\ Goto(t, [th[t] EXCEPT !.pc = "len_store", !.local = SumLengths(reader.data)])
    /\ UNCHANGED <<reader, Rest>>

\* __len__, line 117: self.length = length
LenStore(t) ==
    /\ At(t, "len_store")
    /\ reader' = [reader EXCEPT !.length = th[t].local]
    /\ Goto(t, [th[t] EXCEPT !.pc = "len_ret"])
    /\ UNCHANGED Rest

\* __len__, line 118: return self.length
LenRet(t) ==
    /\ At(t, "len_ret")
    /\ Goto(t, [th[t] EXCEPT !.pc = "idle", !.out = reader.length])
    /\ UNCHANGED <<reader, Rest>>

\* list(reader.gets(key)) in thread t: it reads self.data and nothing else.
ThreadGets(t, key) ==
    /\ At(t, "idle")
    /\ Goto(t, [IdleThread EXCEPT !.op = "gets", !.key = key,
                !.out = gets(reader.data, hash[key], key)])
    /\ UNCHANGED <<reader, Rest>>

\* reader.get(key, default) in thread t.
ThreadGet(t, key, default) ==
    /\ At(t, "idle")
    /\ Goto(t, [IdleThread EXCEPT !.op = "get", !.key = key, !.arg = default,
                !.out = get(reader.data, hash[key], key, default)])
    /\ UNCHANGED <<reader, Rest>>

\* The arguments the calls are made with.
PutArgs == {PyStr(k) : k \in Keys} \cup {PyUnicode(<<97>>)}
PutValues == {PyStr(v) : v \in Values}
Defaults == {UNSPECIFIED, PyStr(<<119>>)}
TextKeys == {<<97>>, <<98>>}
\* The images the threads read: the records put, in the order of the puts.
ReaderImages ==
    { <<>>,
      << <<<<97>>, <<120>>>>, <<<<98>>, <<>>>> >>,
      << <<<<97>>, <<120>>>>, <<<<>>, <<120>>>>, <<<<97>>, <<>>>> >> }
ReaderHashes == {DjbHash, MixedHash}

\* The writer used as its caller is told to: puts, then one finalize.
ProperWrite ==
    /\ nfin = 0
    /\ \/ \E key \in PutArgs, value \in PutValues : Put(key, value)
       \/ Finalize

\* The writer with no such promise: put and finalize in any order.
AnyWrite ==
    \/ \E key \in PutArgs, value \in PutValues : Put(key, value)
    \/ Finalize

\* A database built and then queried by key.
Next ==
    \/ ProperWrite
    \/ Open
    \/ \E key \in Keys : Gets(key)
    \/ \E key \in Keys, default \in Defaults : Get(key, default)

Spec == Init /\ [][Next]_vars

\* A database built and then enumerated and measured.
NextScan ==
    \/ ProperWrite
    \/ Open
    \/ Iteritems
    \/ LenOp

SpecScan == Init /\ [][NextScan]_vars

\* The writer alone, under any order of calls.
NextWriter == AnyWrite

SpecWriter == Init /\ [][NextWriter]_vars

\* A database of text values built and then queried.
InitText == Init /\ hash = DjbHash

NextText ==
    \/ /\ nfin = 0
       /\ \/ \E key \in TextKeys, value \in Texts, encoding \in Encodings :
                 PutString(key, value, encoding)
          \/ \E key \in TextKeys, values \in TextLists, encoding \in Encodings :
                 PutStrings(key, values, encoding)
          \/ Finalize
    \/ Open
    \/ \E key \in TextKeys, encoding \in Encodings : GetString(key, encoding)

SpecText == InitText /\ [][NextText]_vars

RECURSIVE BuildFrom(_, _, _, _)
\* The writer after put(key, value) for each <<key, value>> of items from the i-th on.
BuildFrom(st, h, items, i) ==
    IF i > Len(items) THEN st
    ELSE CHOOSE r \in {BuildFrom(nx, h, items, i + 1) :
                       nx \in {PutStep(st, h[items[i][1]], items[i][1], items[i][2],
                                       "put", <<>>, "")}} : TRUE

\* One Reader, opened on a built image, in the hands of the threads.
InitReaders ==
    /\ hash \in ReaderHashes
    /\ \E items \in ReaderImages :
           \E st \in {BuildFrom([fp |-> NewFile, unordered |-> EmptyUnordered,
                                 puts |-> <<>>, exc |-> "none"], hash, items, 1)} :
               /\ fp = FinalizeFile(st.fp, st.unordered)
               /\ unordered = st.unordered
               /\ puts = st.puts
    /\ nfin = 1
    /\ late = 0
    /\ reader = NewReader(fp)
    /\ last = Call("open", None, None, "", None, "none")
    /\ th = [t \in Threads |-> IdleThread]

NextReaders ==
    \E t \in Threads :
        \/ IterTest(t)
        \/ IterRead(t)
        \/ IterMin(t)
        \/ IterStore(t)
        \/ IterScan(t)
        \/ LenTest(t)
        \/ LenSum(t)
        \/ LenStore(t)
        \/ LenRet(t)
        \/ \E key \in Keys : ThreadGets(t, key)
        \/ \E default \in Defaults : ThreadGet(t, <<97>>, default)

SpecReaders == InitReaders /\ [][NextReaders]_vars

-----------------------------------------------------------------------------
(* What the history says the database holds *)

RECURSIVE ValuesFrom(_, _)
\* The values put under key, in the order of the put calls, from put i on.
ValuesFrom(key, i) ==
    IF i > Len(puts) THEN <<>>
    ELSE IF puts[i].key = key THEN <<puts[i].value>> \o ValuesFrom(key, i + 1)
    ELSE ValuesFrom(key, i + 1)

ValuesOf(key) == ValuesFrom(key, 1)

\* The <<key, value>> pairs put, in the order of the put calls.
ItemsPut == [i \in 1..Len(puts) |-> <<puts[i].key, puts[i].value>>]

RECURSIVE RecordBytes(_)
\* The number of bytes the first n puts occupy in the record region.
RecordBytes(n) ==
    IF n = 0 THEN 0
    ELSE RecordBytes(n - 1) + 8 + Len(puts[n].key) + Len(puts[n].value)

\* The number of puts whose hash selects bucket b.
BucketCount(b) == Cardinality({i \in 1..Len(puts) : hash[puts[i].key].lo = b})

Buckets == 0..(NBUCKETS - 1)

\* Header entry b of a file: <<table_offset, table_length>>.
HeaderEntry(buf, b) == read_2_le4(buf, 8 * b)

\* The slots of bucket b's table in a file, in table order.
TableSlots(buf, b) ==
    LET e == HeaderEntry(buf, b)
    IN  [i \in 1..e[2] |-> read_slot(buf, e[1] + (8 * (i - 1)))]

\* How many times x occurs in the sequence s.
Count(s, x) == Cardinality({i \in 1..Len(s) : s[i] = x})

IsConstantHash == \A j, k \in Keys : hash[j] = hash[k]

-----------------------------------------------------------------------------
(* Claims *)

\* C1: after puts and one finalize, gets(key) yields exactly the values put
\* under key, with their multiplicity and in the order of the put calls, and
\* nothing for a key never put; for every key and every 32-bit hash value.
C1_GetsRoundTrip ==
    last.op = "gets" => last.out = ValuesOf(last.key.v)

\* C2: with a constant hash function and several distinct keys stored, gets
\* returns exactly the values stored under the queried key: no value of another
\* key, and none of its own omitted.
C2_ConstantHash ==
    (IsConstantHash /\ last.op = "gets") =>
        /\ \A i \in 1..Len(last.out) : Count(ValuesOf(last.key.v), last.out[i]) > 0
        /\ last.out = ValuesOf(last.key.v)

\* C3: get(key) returns the first value put under key, whatever default is
\* given; for an absent key it raises KeyError when no default is given and
\* returns the default unchanged otherwise.
C3_Get ==
    last.op = "get" =>
        LET stored == ValuesOf(last.key.v)
        IN  IF Len(stored) > 0
            THEN last.exc = "none" /\ last.out = PyStr(stored[1])
            ELSE IF last.arg = UNSPECIFIED
            THEN last.exc = "KeyError"
            ELSE last.exc = "none" /\ last.out = last.arg

\* C4: iteritems scans [2048, table_start), table_start being the least table
\* offset of the header, and yields every record once, in the order of the put
\* calls: as many items as there were puts.
C4_Iteritems ==
    last.op = "iteritems" =>
        /\ last.out = ItemsPut
        /\ Len(last.out) = Len(puts)
        /\ reader.table_start = HEADER_SIZE + RecordBytes(Len(puts))
        /\ \A b \in Buckets : HeaderEntry(reader.data, b)[1] >= reader.table_start

C4_Witness ==
    /\ last.op = "iteritems"
    /\ Len(puts) >= 2
    /\ puts[1].value /= <<>>
    /\ HeaderEntry(reader.data, 0)[2] = 0

\* C5: len(reader) is the number of records: n after n puts and a finalize.
C5_Len ==
    last.op = "len" => last.out = Len(puts)

\* C6: finalize is one-shot: a second finalize, and a put after finalize, is
\* refused with an error and not carried out.
C6_OneShot ==
    /\ nfin <= 1
    /\ late = 0

\* C6, as the code has it: the writer keeps no record of having finalized, so
\* every put with str arguments and every finalize is carried out, without an
\* error, also after a finalize: the put leaves its record right before the
\* file position and its entry last in its bucket's pending list, the finalize
\* leaves the file position after the header.  The only error is put's
\* AssertionError for an argument that is no str.
C6_NoGuard ==
    /\ last.exc \in {"none", "AssertionError"}
    /\ last.exc = "AssertionError" =>
           last.op = "put" /\ (last.key.type /= "str" \/ last.arg.type /= "str")
    /\ (last.op = "put" /\ last.exc = "none") =>
           LET k == last.key.v
               v == last.arg.v
               at == fp.pos - (8 + Len(k) + Len(v))
               pending == unordered[hash[k].lo]
           IN  /\ NextRecord(fp.buf, at) = <<k, v, fp.pos>>
               /\ pending[Len(pending)] = <<hash[k], ToW(at)>>
               /\ puts[Len(puts)].key = k /\ puts[Len(puts)].value = v
    /\ last.op = "finalize" => fp.pos = HEADER_SIZE /\ nfin >= 1

C6_Witness ==
    /\ nfin >= 2
    /\ late >= 1
    /\ last.op = "finalize"

\* C9: finalize places each pending entry of a bucket in a slot of its own:
\* no placement overwrites an earlier entry, and after finalize the occupied
\* slots of each bucket's table are exactly the bucket's pending entries, each
\* once.
C9_NoOverwrite ==
    (last.op = "finalize" /\ nfin = 1) =>
        \A b \in Buckets :
            LET slots == TableSlots(fp.buf, b)
            IN  /\ \A i \in 1..Len(unordered[b]) :
                       Count(slots, <<unordered[b][i][1], ToInt(unordered[b][i][2])>>) = Count(unordered[b], unordered[b][i])
                /\ \A i \in 1..Len(slots) :
                       slots[i] = <<ToW(0), 0>> \/ Count(unordered[b], <<slots[i][1], ToW(slots[i][2])>>) > 0

\* C10: after finalize the table_length of header entry b is twice the number
\* of puts whose hash modulo 256 is b, and the table_length values sum to twice
\* the number of puts.
C10_TableLengths ==
    last.op = "finalize" =>
        /\ \A b \in Buckets : HeaderEntry(fp.buf, b)[2] = 2 * BucketCount(b)
        /\ SumLengths(fp.buf) = 2 * Len(puts)

C10_Witness ==
    /\ last.op = "finalize"
    /\ \E b, c \in Buckets : b /= c /\ BucketCount(b) >= 1 /\ BucketCount(c) >= 1

\* What a finished call of thread t would have returned on a Reader of its own.
AsAlone(t) ==
    /\ th[t].op = "iteritems" => th[t].out = iteritems(NewReader(fp))
    /\ th[t].op = "len" => th[t].out = LengthOf(NewReader(fp))
    /\ th[t].op = "gets" => th[t].out = gets(fp.buf, hash[th[t].key], th[t].key)
    /\ th[t].op = "get" => th[t].out = get(fp.buf, hash[th[t].key], th[t].key, th[t].arg)

Finished(t) == th[t].pc = "idle" /\ th[t].op /= "none"

\* C7: readers run gets, get, iteration and size calls against one image in
\* any interleaving: no call changes the image bytes or any state the readers
\* share (only cursors local to the call), and every call returns what it
\* returns when run alone.
C7_NoSharedState ==
    reader.open =>
        /\ reader = NewReader(fp)
        /\ \A t \in Threads : Finished(t) => AsAlone(t)

\* C7, as the code has it: iteritems and __len__ write the Reader's fields
\* table_start and length, which every thread using the object shares.  The
\* bytes of the image are never written, each of the two fields is either
\* unset or holds the one value the image determines, and every call returns
\* what it returns when run alone.
C7_BenignCache ==
    reader.open =>
        /\ reader.data = fp.buf
        /\ reader.table_start \in {Unset, ComputeTableStart(fp.buf)}
        /\ reader.length \in {Unset, SumLengths(fp.buf)}
        /\ \A t \in Threads : Finished(t) => AsAlone(t)

\* Thread 1 is about to store the table_start it computed while thread 2,
\* which stored its own in the meantime, has finished its iteration.
C7_Witness ==
    /\ th[1].pc = "it_store"
    /\ th[2].op = "iteritems" /\ th[2].pc = "idle"
    /\ Len(th[2].out) >= 2
    /\ reader.table_start /= Unset
    /\ reader.length /= Unset

\* C8: putstring(key, s, e) writes the record putstrings(key, [s], e) writes,
\* the value being s encoded in e, so that after finalize
\* getstring(key, encoding=e) returns s.
C8_PutString ==
    /\ \A i \in 1..Len(puts) :
           puts[i].via \in {"putstring", "putstrings"} =>
               \E e \in {Encode(puts[i].text, puts[i].enc)} : e.ok /\ puts[i].value = e.v
    /\ (/\ last.op = "getstring"
        /\ \E i \in 1..Len(puts) :
               /\ puts[i].key = last.key.v
               /\ puts[i].via = "putstring"
               /\ puts[i].enc = last.enc
               /\ \A j \in 1..(i - 1) : puts[j].key /= last.key.v)
       => \E i \in 1..Len(puts) :
              /\ puts[i].key = last.key.v
              /\ \A j \in 1..(i - 1) : puts[j].key /= last.key.v
              /\ last.exc = "none"
              /\ last.out = PyUnicode(puts[i].text)

=============================================================================
